---------------------------- MODULE Spec2Model ----------------------------
(***************************************************************************)
(* Model of src/main.py: the FastAPI endpoint POST /analisar_ameacas.       *)
(*                                                                         *)
(* Strings that the program only copies or compares are modelled as        *)
(* sequences of tokens (each token a TLA+ string): a prompt template is    *)
(* the sequence of its literal chunks, braces and field names; a language  *)
(* selector is the sequence of its characters; a model reply is the        *)
(* sequence of its JSON lexemes.  The string functions the program uses    *)
(* (strip, lower, startswith, str.format, json.loads, the JSON encoder of  *)
(* JSONResponse) are operators over these sequences.                       *)
(***************************************************************************)
EXTENDS Integers, Sequences, FiniteSets, TLC

VARIABLES
    promptArgs,   \* arguments of one call of create_threat_model_prompt
    promptOut,    \* what that call returned
    model,        \* the module-level GenerativeModel handle (main.py:21)
    request,      \* request[r]: the multipart form of request r
    pc,           \* pc[r]: where request r is
    prompt,       \* prompt[r]: local `prompt` of r's analyze_threats frame
    reply,        \* reply[r]: what upload, SDK and model did for r
    calls,        \* calls[r]: the model.generate_content calls made for r
    raised,       \* raised[r]: the exception raised inside r's try block
    response      \* response[r]: the HTTP response sent for r

vars == <<promptArgs, promptOut, model, request, pc, prompt, reply, calls,
          raised, response>>

(***************************************************************************)
(* Bounds                                                                  *)
(***************************************************************************)
MaxLangLen == 4      \* longest prompt_language value tried, in characters
MaxTextLen == 5      \* longest enumerated model reply, in JSON lexemes
NumRequests == 3     \* requests in flight at once

Requests == 1 .. NumRequests

\* All sequences over S of length at most n.
SeqsUpTo(S, n) == UNION {[1 .. k -> S] : k \in 0 .. n}

\* s holds sub as a contiguous run.
Contains(s, sub) ==
    \E i \in 0 .. (Len(s) - Len(sub)) :
        \A j \in 1 .. Len(sub) : s[i + j] = sub[j]

(***************************************************************************)
(* Python optional values: None, or a value.                               *)
(***************************************************************************)
None == [some |-> FALSE, v |-> <<>>]
Some(x) == [some |-> TRUE, v |-> x]

(***************************************************************************)
(* Prompt templates (main.py:34-84)                                        *)
(***************************************************************************)
FieldNames == <<"tipo_aplicacao", "autenticacao", "acesso_internet",
                "dados_sensiveis", "descricao_aplicacao">>

PT_TEMPLATE ==
    <<"Aja como um especialista em ciberseguranca",
      " com mais de 20 anos de experiencia, ... Regras de saida: ... Contexto:",
      "TIPO_DE_APLICACAO: ", "{", "tipo_aplicacao", "}",
      "METODOS_DE_AUTENTICACAO: ", "{", "autenticacao", "}",
      "EXPOSTA_NA_INTERNET: ", "{", "acesso_internet", "}",
      "DADOS_SENSIVEIS: ", "{", "dados_sensiveis", "}",
      "RESUMO_DESCRICAO: ", "{", "descricao_aplicacao", "}",
      "Saida esperada (SOMENTE JSON):",
      "{", "{", " threat_model: [ ",
      "{", "{", " Threat Type: Spoofing, Scenario, Potential Impact ", "}", "}",
      " ], improvement_suggestions: [ ... ] ",
      "}", "}">>

EN_TEMPLATE ==
    <<"Act as a cybersecurity expert",
      " with 20+ years of experience, ... Output rules: ... Context:",
      "APPLICATION_TYPE: ", "{", "tipo_aplicacao", "}",
      "AUTHENTICATION_METHODS: ", "{", "autenticacao", "}",
      "INTERNET_EXPOSED: ", "{", "acesso_internet", "}",
      "SENSITIVE_DATA: ", "{", "dados_sensiveis", "}",
      "SUMMARY_DESCRIPTION: ", "{", "descricao_aplicacao", "}",
      "Expected output (JSON ONLY):",
      "{", "{", " threat_model: [ ",
      "{", "{", " Threat Type: Spoofing, Scenario, Potential Impact ", "}", "}",
      " ], improvement_suggestions: [ ... ] ",
      "}", "}">>

(***************************************************************************)
(* str.strip, str.lower, str.startswith over character sequences           *)
(***************************************************************************)
IsSpace(c) == c = " "

lower_char(c) == IF c = "E" THEN "e" ELSE IF c = "N" THEN "n" ELSE c

lower(s) == [i \in 1 .. Len(s) |-> lower_char(s[i])]

RECURSIVE lstrip(_)
lstrip(s) ==
    IF s # <<>> /\ IsSpace(Head(s)) THEN lstrip(Tail(s)) ELSE s

RECURSIVE rstrip(_)
rstrip(s) ==
    IF s # <<>> /\ IsSpace(s[Len(s)])
    THEN rstrip(SubSeq(s, 1, Len(s) - 1))
    ELSE s

strip(s) == rstrip(lstrip(s))

startswith(s, p) == Len(s) >= Len(p) /\ SubSeq(s, 1, Len(p)) = p

(***************************************************************************)
(* str.format with keyword arguments kw, over a tokenised template: "{{"   *)
(* and "}}" are literal braces, "{" name "}" is replaced by kw[name],      *)
(* whose tokens are copied and never scanned again.  A name kw lacks, or   *)
(* a brace that opens or closes nothing, raises (ok = FALSE).              *)
(***************************************************************************)
RECURSIVE FormatFrom(_, _, _, _)
FormatFrom(t, i, kw, acc) ==
    IF i > Len(t) THEN [ok |-> TRUE, out |-> acc]
    ELSE IF t[i] = "{" THEN
        IF i < Len(t) /\ t[i + 1] = "{"
        THEN FormatFrom(t, i + 2, kw, Append(acc, "{"))
        ELSE IF i + 2 <= Len(t) /\ t[i + 2] = "}" /\ t[i + 1] \in DOMAIN kw
        THEN FormatFrom(t, i + 3, kw, acc \o kw[t[i + 1]])
        ELSE [ok |-> FALSE, out |-> <<>>]
    ELSE IF t[i] = "}" THEN
        IF i < Len(t) /\ t[i + 1] = "}"
        THEN FormatFrom(t, i + 2, kw, Append(acc, "}"))
        ELSE [ok |-> FALSE, out |-> <<>>]
    ELSE FormatFrom(t, i + 1, kw, Append(acc, t[i]))

\* A formatter built from chained str.replace calls: each "{name}" is
\* replaced in turn in the text produced so far, then the doubled braces
\* are halved.  A value put in by an earlier replacement is scanned again.
RECURSIVE ReplaceField(_, _, _)
ReplaceField(s, name, val) ==
    IF Len(s) = 0 THEN <<>>
    ELSE IF Len(s) >= 3 /\ s[1] = "{" /\ s[2] = name /\ s[3] = "}"
    THEN val \o ReplaceField(SubSeq(s, 4, Len(s)), name, val)
    ELSE <<s[1]>> \o ReplaceField(Tail(s), name, val)

RECURSIVE Unescape(_)
Unescape(s) ==
    IF Len(s) = 0 THEN <<>>
    ELSE IF Len(s) >= 2 /\ s[1] \in {"{", "}"} /\ s[2] = s[1]
    THEN <<s[1]>> \o Unescape(SubSeq(s, 3, Len(s)))
    ELSE <<s[1]>> \o Unescape(Tail(s))

RECURSIVE ReplaceFields(_, _, _)
ReplaceFields(s, kw, i) ==
    IF i > Len(FieldNames) THEN s
    ELSE ReplaceFields(ReplaceField(s, FieldNames[i], kw[FieldNames[i]]),
                       kw, i + 1)

format_by_replace(t, kw) ==
    [ok |-> TRUE, out |-> Unescape(ReplaceFields(t, kw, 1))]

format(t, kw) == FormatFrom(t, 1, kw, <<>>)

(***************************************************************************)
(* create_threat_model_prompt (main.py:86-106)                             *)
(***************************************************************************)
\* The other variant's default: a missing selector means English.
lang_default_en(prompt_language) ==
    lower(strip(IF prompt_language.some /\ prompt_language.v # <<>>
                THEN prompt_language.v ELSE <<"e", "n">>))

\* main.py:98  lang = (prompt_language or "pt").strip().lower()
lang_of(prompt_language) ==
    lower(strip(IF prompt_language.some /\ prompt_language.v # <<>>
                THEN prompt_language.v ELSE <<"p", "t">>))

\* main.py:99  template = EN_TEMPLATE if lang.startswith("en") else PT_TEMPLATE
template_for(prompt_language) ==
    IF startswith(lang_of(prompt_language), <<"e", "n">>)
    THEN EN_TEMPLATE ELSE PT_TEMPLATE

\* fields: a function from the five field names to their values.
create_threat_model_prompt(fields, prompt_language) ==
    format(template_for(prompt_language), fields)

(***************************************************************************)
(* JSON values, as json.loads builds them and JSONResponse encodes them.   *)
(* Every value is a record of the same four fields.                        *)
(***************************************************************************)
JStr(txt) == [t |-> "str", txt |-> txt, keys |-> <<>>, kids |-> <<>>]
JNum(lex) == [t |-> "num", txt |-> <<lex>>, keys |-> <<>>, kids |-> <<>>]
JNaN == [t |-> "nan", txt |-> <<>>, keys |-> <<>>, kids |-> <<>>]
JArr(kids) == [t |-> "arr", txt |-> <<>>, keys |-> <<>>, kids |-> kids]
JObj(keys, kids) == [t |-> "obj", txt |-> <<>>, keys |-> keys, kids |-> kids]
NoValue == [t |-> "none", txt |-> <<>>, keys |-> <<>>, kids |-> <<>>]

(***************************************************************************)
(* The lexemes of a model reply.  A string lexeme stands for a JSON string *)
(* literal, quotes included; StrContent is the Python str it decodes to.   *)
(***************************************************************************)
StringLexemes == {"\"k\"", "\"threat_model\"", "\"improvement_suggestions\"",
                  "\"Threat Type\"", "\"Spoofing\"", "\"raw_text\""}

NumberLexemes == {"1"}

StrContent(lex) ==
    CASE lex = "\"k\"" -> "k"
      [] lex = "\"threat_model\"" -> "threat_model"
      [] lex = "\"improvement_suggestions\"" -> "improvement_suggestions"
      [] lex = "\"Threat Type\"" -> "Threat Type"
      [] lex = "\"Spoofing\"" -> "Spoofing"
      [] lex = "\"raw_text\"" -> "raw_text"
      [] OTHER -> lex

(***************************************************************************)
(* json.loads (main.py:160): Python's decoder.  Besides the JSON grammar   *)
(* it accepts the constants NaN, Infinity and -Infinity (parse_constant),  *)
(* of which NaN is modelled.  The result of a failed parse has ok = FALSE  *)
(* (json.JSONDecodeError).                                                 *)
(***************************************************************************)
ParseFail == [ok |-> FALSE, val |-> NoValue, next |-> 0]
ParseOk(v, n) == [ok |-> TRUE, val |-> v, next |-> n]

\* dict[k] = v: a repeated key keeps its place and takes the later value.
DictSet(d, k, v) ==
    IF \E i \in 1 .. Len(d.keys) : d.keys[i] = k
    THEN JObj(d.keys, [i \in 1 .. Len(d.kids) |->
                          IF d.keys[i] = k THEN v ELSE d.kids[i]])
    ELSE JObj(Append(d.keys, k), Append(d.kids, v))

RECURSIVE ParseValue(_, _), ParseElements(_, _, _), ParseMembers(_, _, _)

ParseValue(t, i) ==
    IF i > Len(t) THEN ParseFail
    ELSE IF t[i] = "[" THEN
        IF i + 1 <= Len(t) /\ t[i + 1] = "]"
        THEN ParseOk(JArr(<<>>), i + 2)
        ELSE ParseElements(t, i + 1, <<>>)
    ELSE IF t[i] = "{" THEN
        IF i + 1 <= Len(t) /\ t[i + 1] = "}"
        THEN ParseOk(JObj(<<>>, <<>>), i + 2)
        ELSE ParseMembers(t, i + 1, JObj(<<>>, <<>>))
    ELSE IF t[i] \in StringLexemes THEN ParseOk(JStr(<<StrContent(t[i])>>), i + 1)
    ELSE IF t[i] \in NumberLexemes THEN ParseOk(JNum(t[i]), i + 1)
    ELSE IF t[i] = "NaN" THEN ParseOk(JNaN, i + 1)
    ELSE ParseFail

ParseElements(t, i, acc) ==
    LET v == ParseValue(t, i) IN
    IF ~v.ok \/ v.next > Len(t) THEN ParseFail
    ELSE IF t[v.next] = "," THEN ParseElements(t, v.next + 1, Append(acc, v.val))
    ELSE IF t[v.next] = "]" THEN ParseOk(JArr(Append(acc, v.val)), v.next + 1)
    ELSE ParseFail

ParseMembers(t, i, d) ==
    IF i + 1 > Len(t) \/ t[i] \notin StringLexemes \/ t[i + 1] # ":"
    THEN ParseFail
    ELSE LET v == ParseValue(t, i + 2) IN
         IF ~v.ok \/ v.next > Len(t) THEN ParseFail
         ELSE LET d2 == DictSet(d, StrContent(t[i]), v.val) IN
              IF t[v.next] = "," THEN ParseMembers(t, v.next + 1, d2)
              ELSE IF t[v.next] = "}" THEN ParseOk(d2, v.next + 1)
              ELSE ParseFail

\* A float nan somewhere in the value.
RECURSIVE HasNaN(_)
HasNaN(v) ==
    v.t = "nan" \/ \E i \in 1 .. Len(v.kids) : HasNaN(v.kids[i])

\* json.loads: one value, then the end of the text ("Extra data" otherwise).
loads(t) ==
    LET v == ParseValue(t, 1) IN
    IF v.ok /\ v.next = Len(t) + 1 THEN v ELSE ParseFail

(***************************************************************************)
(* Results of a step that may raise: an exception (its message), or a      *)
(* returned response.                                                      *)
(***************************************************************************)
NoResponse == [status |-> 0, body |-> NoValue]
Raise(m) == [exc |-> TRUE, msg |-> m, resp |-> NoResponse]
Return(resp) == [exc |-> FALSE, msg |-> "", resp |-> resp]
NoException == [some |-> FALSE, msg |-> ""]

(***************************************************************************)
(* JSONResponse(content=..., status_code=...): Starlette encodes the body  *)
(* in the constructor with json.dumps(allow_nan=False), which raises       *)
(* ValueError for a float nan.                                             *)
(***************************************************************************)
NanMessage == "Out of range float values are not JSON compliant"

JSONResponse(content, status_code) ==
    IF HasNaN(content) THEN Raise(NanMessage)
    ELSE Return([status |-> status_code, body |-> content])

(***************************************************************************)
(* The multipart form and the framework's validation (main.py:108-117)     *)
(***************************************************************************)
\* A File(...) or Form(...) with no default is one the request must hold.
Required_without_tipo_aplicacao ==
    {"imagem", "autenticacao", "acesso_internet", "dados_sensiveis",
     "descricao_aplicacao"}

Required ==
    {"imagem", "tipo_aplicacao", "autenticacao", "acesso_internet",
     "dados_sensiveis", "descricao_aplicacao"}

AllParts == Required \cup {"prompt_language"}

Missing(f) == Required \ f.present

\* FastAPI answers a request that lacks a required part itself, with 422
\* and the list of what is missing; analyze_threats is not called.
RECURSIVE MissingList(_)
MissingList(S) ==
    IF S = {} THEN <<>>
    ELSE LET x == CHOOSE y \in S : TRUE
         IN <<JStr(<<x>>)>> \o MissingList(S \ {x})

validation_error(f) ==
    [status |-> 422, body |-> JObj(<<"detail">>, <<JArr(MissingList(Missing(f)))>>)]

\* main.py:116  Form("pt"): an absent prompt_language takes the default.
prompt_language_arg(f) ==
    IF "prompt_language" \in f.present THEN Some(f.prompt_language)
    ELSE Some(<<"p", "t">>)

fields_arg(f) ==
    [n \in {FieldNames[i] : i \in 1 .. Len(FieldNames)} |->
        IF n \in f.present THEN f.fields[n] ELSE <<>>]

(***************************************************************************)
(* analyze_threats, after the upload was read (main.py:136-166)            *)
(***************************************************************************)
\* main.py:137 with no fallback: the declared type, or the empty string.
mime_type_no_default(imagem) ==
    IF imagem.declared THEN imagem.content_type ELSE ""

\* main.py:137  mime_type = imagem.content_type or "image/png"
mime_type_of(imagem) ==
    IF imagem.declared /\ imagem.content_type # ""
    THEN imagem.content_type ELSE "image/png"

\* main.py:138-140  bytes(image_bytes) keeps the content of a bytearray.
image_part(imagem) ==
    [kind |-> "image", text |-> <<>>, mime_type |-> mime_type_of(imagem),
     data |-> imagem.data]

text_part(s) == [kind |-> "text", text |-> s, mime_type |-> "", data |-> <<>>]

TrailingInstruction ==
    <<"Analyze the image and the text above and return ONLY the JSON described in the instructions.">>

\* main.py:143-147
contents(p, imagem) ==
    <<text_part(p), image_part(imagem), text_part(TrailingInstruction)>>

\* main.py:150-154; temperature and top_p in hundredths.
cfg == [temperature_x100 |-> 70, top_p_x100 |-> 95, max_output_tokens |-> 1500]

\* A handler that calls the model again when the call raised.
invocations_with_retry(f, p, o) ==
    LET call == [contents |-> contents(p, f.imagem), generation_config |-> cfg]
    IN IF o.stage \in {"read", "part"} THEN <<>>
       ELSE IF o.stage = "generate" THEN <<call, call>>
       ELSE <<call>>

\* main.py:155: the calls of model.generate_content made for one request.
\* The call is reached unless the read or Part.from_data raised.
invocations(f, p, o) ==
    IF o.stage \in {"read", "part"} THEN <<>>
    ELSE <<[contents |-> contents(p, f.imagem), generation_config |-> cfg]>>

\* main.py:158  text = response.text or ""
text_or_empty(textOpt) == IF textOpt.some THEN textOpt.v ELSE <<>>

\* A handler without the inner except: the decode error reaches the outer one.
on_decode_error_propagates(text) == Raise("Expecting value")

\* A fallback that returns the text itself as the body.
on_decode_error_bare_text(text) == JSONResponse(JStr(text), 200)

\* main.py:162-163
on_decode_error(text) ==
    JSONResponse(JObj(<<"raw_text">>, <<JStr(text)>>), 200)

\* main.py:158-163
interpret(textOpt) ==
    LET text == text_or_empty(textOpt)
        parsed == loads(text)
    IN IF parsed.ok THEN JSONResponse(parsed.val, 200)
       ELSE on_decode_error(text)

\* main.py:136-163: the body of the try from the await on.  o says what the
\* upload, the SDK and the model did: the stage that raised, or "ok" and
\* the value of response.text.
try_body(o) ==
    IF o.stage \in {"read", "part", "generate", "text"} THEN Raise(o.msg)
    ELSE interpret(o.text)

\* An except clause that forgets status_code=500.
except_Exception_status_default(m) ==
    JSONResponse(JObj(<<"error">>, <<JStr(<<m>>)>>), 200).resp

\* main.py:165-166
except_Exception(m) ==
    JSONResponse(JObj(<<"error">>, <<JStr(<<m>>)>>), 500).resp

(***************************************************************************)
(* Inputs: forms, uploads, and what the upload, the SDK and the model do.  *)
(***************************************************************************)
FieldSet == {FieldNames[i] : i \in 1 .. Len(FieldNames)}

NoUpload == [data |-> <<>>, declared |-> FALSE, content_type |-> "",
             read_type |-> "bytes"]

Uploads ==
    {[data |-> <<137, 80, 78, 71>>, declared |-> TRUE,
      content_type |-> "image/jpeg", read_type |-> "bytes"],
     [data |-> <<255, 216>>, declared |-> FALSE, content_type |-> "",
      read_type |-> "bytes"],
     [data |-> <<>>, declared |-> TRUE, content_type |-> "",
      read_type |-> "bytes"],
     [data |-> <<71, 73, 70>>, declared |-> TRUE,
      content_type |-> "image/gif", read_type |-> "bytearray"]}

\* A form: the parts it holds and their values; a part it lacks has none.
MkForm(present, fields, imagem, lang) ==
    [present |-> present,
     fields |-> [n \in FieldSet |-> IF n \in present THEN fields[n] ELSE <<>>],
     imagem |-> IF "imagem" \in present THEN imagem ELSE NoUpload,
     prompt_language |-> IF "prompt_language" \in present THEN lang ELSE <<>>]

EmptyForm == MkForm({}, [n \in FieldSet |-> <<>>], NoUpload, <<>>)

FieldsWith(tipo) ==
    [n \in FieldSet |->
        CASE n = "tipo_aplicacao" -> tipo
          [] n = "autenticacao" -> <<"OAuth2">>
          [] n = "acesso_internet" -> <<"yes">>
          [] n = "dados_sensiveis" -> <<"PII">>
          [] OTHER -> <<"internal HR portal">>]

JpegUpload == CHOOSE u \in Uploads : u.content_type = "image/jpeg"
UntypedUpload == CHOOSE u \in Uploads : ~u.declared

\* Forms of the single-request specification: every complete form over two
\* application types, the uploads and an absent or English selector, and
\* every way of leaving parts out of one form.
Forms ==
    {MkForm(present, FieldsWith(tipo), u, <<"e", "n">>) :
        present \in {Required, AllParts},
        tipo \in {<<"web app">>, <<"{", "autenticacao", "}">>},
        u \in Uploads}
    \cup {MkForm(present, FieldsWith(<<"web app">>), JpegUpload, <<"e", "n">>) :
            present \in SUBSET AllParts}

\* Forms of the concurrent specification: two complete forms that differ in
\* every part, and one that lacks a field.
ConcForms ==
    {MkForm(AllParts, FieldsWith(<<"web app">>), JpegUpload, <<"e", "n">>),
     MkForm(Required, FieldsWith(<<"batch job">>), UntypedUpload, <<>>),
     MkForm(Required \ {"tipo_aplicacao"}, FieldsWith(<<"web app">>),
            JpegUpload, <<>>)}

InterpForms ==
    {MkForm(AllParts, FieldsWith(<<"web app">>), JpegUpload, <<"e", "n">>)}

RaiseReplies ==
    {[stage |-> "read", msg |-> "upload read failed", text |-> None],
     [stage |-> "part", msg |-> "invalid image data", text |-> None],
     [stage |-> "generate", msg |-> "503 network failure", text |-> None],
     [stage |-> "text", msg |-> "response has no text", text |-> None]}

TextReply(textOpt) == [stage |-> "ok", msg |-> "", text |-> textOpt]

NoReply == [stage |-> "none", msg |-> "", text |-> None]

JsonAlphabet == {"[", "]", "{", "}", ",", ":", "1", "NaN", "\"k\""}

ThreatModelText ==
    <<"{", "\"threat_model\"", ":", "[",
           "{", "\"Threat Type\"", ":", "\"Spoofing\"", "}", "]", ",",
           "\"improvement_suggestions\"", ":", "[", "\"k\"", "]", "}">>

ExtraTexts ==
    {ThreatModelText,
     <<"I cannot comply">>,
     <<"{", "\"k\"", ":", "1", "}">>,
     <<"{", "\"k\"", ":", "1", ",", "\"k\"", ":", "\"k\"", "}">>,
     <<"{", "\"raw_text\"", ":", "\"k\"", "}">>,
     <<"{", "\"threat_model\"", ":", "NaN", "}">>,
     <<"[", "1", ",", "[", "1", "]", "]">>}

Replies ==
    RaiseReplies
    \cup {TextReply(None), TextReply(Some(<<>>))}
    \cup {TextReply(Some(t)) : t \in ExtraTexts}
    \cup {TextReply(Some(t)) : t \in {<<"1">>, <<"[">>, <<"NaN">>, <<"\"k\"">>}}

InterpReplies ==
    RaiseReplies
    \cup {TextReply(None)}
    \cup {TextReply(Some(t)) : t \in SeqsUpTo(JsonAlphabet, MaxTextLen)}
    \cup {TextReply(Some(t)) : t \in ExtraTexts}

ConcReplies ==
    {[stage |-> "generate", msg |-> "503 network failure", text |-> None],
     TextReply(Some(<<"I cannot comply">>)),
     TextReply(Some(<<"[", "1", "]">>))}

LangAlphabet == {" ", "e", "E", "n", "N", "p"}

FieldValues ==
    {<<"web app">>, <<"{", "autenticacao", "}">>, <<"{", "{">>, <<"}", "x">>}

PromptArgs(fields, lang) == [fields |-> fields, prompt_language |-> lang]

PromptInputs ==
    {PromptArgs(FieldsWith(<<"web app">>), lang) :
        lang \in {None} \cup {Some(l) : l \in SeqsUpTo(LangAlphabet, MaxLangLen)}}
    \cup {PromptArgs(f, Some(<<"e", "n">>)) : f \in [FieldSet -> FieldValues]}

NoPrompt == [called |-> FALSE, ok |-> FALSE, out |-> <<>>]

(***************************************************************************)
(* State machine                                                           *)
(***************************************************************************)
InitHandler ==
    /\ model = "gemini-1.5-pro"
    /\ request = [r \in Requests |-> EmptyForm]
    /\ pc = [r \in Requests |-> "idle"]
    /\ prompt = [r \in Requests |-> <<>>]
    /\ reply = [r \in Requests |-> NoReply]
    /\ calls = [r \in Requests |-> <<>>]
    /\ raised = [r \in Requests |-> NoException]
    /\ response = [r \in Requests |-> NoResponse]

Init ==
    /\ promptArgs = PromptArgs(FieldsWith(<<"web app">>), None)
    /\ promptOut = NoPrompt
    /\ InitHandler

InitPrompt ==
    /\ promptArgs \in PromptInputs
    /\ promptOut = NoPrompt
    /\ InitHandler

\* One call of create_threat_model_prompt with the drawn arguments.
BuildPrompt ==
    /\ ~promptOut.called
    /\ LET b == create_threat_model_prompt(promptArgs.fields,
                                           promptArgs.prompt_language)
       IN promptOut' = [called |-> TRUE, ok |-> b.ok, out |-> b.out]
    /\ UNCHANGED <<promptArgs, model, request, pc, prompt, reply, calls,
                   raised, response>>

\* A request with form f arrives.
Receive(r, forms) ==
    /\ pc[r] = "idle"
    /\ \E f \in forms : request' = [request EXCEPT ![r] = f]
    /\ pc' = [pc EXCEPT ![r] = "received"]
    /\ UNCHANGED <<promptArgs, promptOut, model, prompt, reply, calls, raised,
                   response>>

\* The framework rejects a request that lacks a required part.
Reject(r) ==
    /\ pc[r] = "received"
    /\ Missing(request[r]) # {}
    /\ response' = [response EXCEPT ![r] = validation_error(request[r])]
    /\ pc' = [pc EXCEPT ![r] = "rejected"]
    /\ UNCHANGED <<promptArgs, promptOut, model, request, prompt, reply, calls,
                   raised>>

\* analyze_threats from its entry to `await imagem.read()` (main.py:124-136).
Begin(r) ==
    /\ pc[r] = "received"
    /\ Missing(request[r]) = {}
    /\ LET f == request[r]
           b == create_threat_model_prompt(fields_arg(f), prompt_language_arg(f))
       IN IF b.ok
          THEN /\ prompt' = [prompt EXCEPT ![r] = b.out]
               /\ pc' = [pc EXCEPT ![r] = "reading"]
               /\ UNCHANGED <<raised, response>>
          ELSE /\ raised' = [raised EXCEPT ![r] = [some |-> TRUE, msg |-> "KeyError"]]
               /\ response' = [response EXCEPT ![r] = except_Exception("KeyError")]
               /\ pc' = [pc EXCEPT ![r] = "done"]
               /\ UNCHANGED prompt
    /\ UNCHANGED <<promptArgs, promptOut, model, request, reply, calls>>

\* The local `prompt` of another frame: what a module-level variable that
\* every request assigns would hold, the prompt of the latest request begun.
prompt_of_any_frame(r) ==
    LET S == {q \in Requests : pc[q] \in {"reading", "done"}}
    IN prompt[CHOOSE q \in S : \A q2 \in S : q2 <= q]

\* The local `prompt` of r's own frame, read after the await.
prompt_of_frame(r) == prompt[r]

\* analyze_threats from the resumption after the read to its return
\* (main.py:136-166).  model.generate_content is a plain call, not awaited:
\* nothing else runs between the resumption and the return.
Finish(r, replies) ==
    /\ pc[r] = "reading"
    /\ \E o \in replies :
         LET f == request[r]
             b == try_body(o)
         IN /\ reply' = [reply EXCEPT ![r] = o]
            /\ calls' = [calls EXCEPT ![r] = invocations(f, prompt_of_frame(r), o)]
            /\ raised' = [raised EXCEPT ![r] =
                            IF b.exc THEN [some |-> TRUE, msg |-> b.msg]
                            ELSE NoException]
            /\ response' = [response EXCEPT ![r] =
                            IF b.exc THEN except_Exception(b.msg) ELSE b.resp]
    /\ pc' = [pc EXCEPT ![r] = "done"]
    /\ UNCHANGED <<promptArgs, promptOut, model, request, prompt>>

\* One request, every form, the replies of every kind.
Next ==
    \/ Receive(1, Forms)
    \/ Reject(1)
    \/ Begin(1)
    \/ Finish(1, Replies)

Spec == Init /\ [][Next]_vars

\* One request, one form, every short reply text.
NextInterp ==
    \/ Receive(1, InterpForms)
    \/ Begin(1)
    \/ Finish(1, InterpReplies)

SpecInterp == Init /\ [][NextInterp]_vars

\* Several requests in flight, interleaved at the await.
NextConc ==
    \E r \in Requests :
        \/ Receive(r, ConcForms)
        \/ Reject(r)
        \/ Begin(r)
        \/ Finish(r, ConcReplies)

SpecConc == Init /\ [][NextConc]_vars

\* The prompt builder alone, on every drawn argument list.
NextPrompt == BuildPrompt

SpecPrompt == InitPrompt /\ [][NextPrompt]_vars

(***************************************************************************)
(* Properties                                                              *)
(***************************************************************************)
Done(r) == pc[r] = "done"

\* The text the handler interprets for r: response.text, "" when missing.
TextOf(r) == IF reply[r].text.some THEN reply[r].text.v ELSE <<>>

RawTextBody(text) == JObj(<<"raw_text">>, <<JStr(text)>>)
ErrorBody(m) == JObj(<<"error">>, <<JStr(<<m>>)>>)

IsRawTextBody(b) ==
    b.t = "obj" /\ b.keys = <<"raw_text">> /\ Len(b.kids) = 1 /\ b.kids[1].t = "str"

IsErrorBody(b) ==
    b.t = "obj" /\ b.keys = <<"error">> /\ Len(b.kids) = 1 /\ b.kids[1].t = "str"

STRIDE == {"Spoofing", "Tampering", "Repudiation", "Information Disclosure",
           "Denial of Service", "Elevation of Privilege"}

KeyIndex(b, k) == CHOOSE i \in 1 .. Len(b.keys) : b.keys[i] = k
HasKey(b, k) == \E i \in 1 .. Len(b.keys) : b.keys[i] = k

IsThreat(v) ==
    /\ v.t = "obj"
    /\ HasKey(v, "Threat Type")
    /\ LET tt == v.kids[KeyIndex(v, "Threat Type")]
       IN tt.t = "str" /\ Len(tt.txt) = 1 /\ tt.txt[1] \in STRIDE

IsThreatModelBody(b) ==
    /\ b.t = "obj"
    /\ {b.keys[i] : i \in 1 .. Len(b.keys)} = {"threat_model", "improvement_suggestions"}
    /\ LET tm == b.kids[KeyIndex(b, "threat_model")]
           sg == b.kids[KeyIndex(b, "improvement_suggestions")]
       IN /\ tm.t = "arr"
          /\ \A i \in 1 .. Len(tm.kids) : IsThreat(tm.kids[i])
          /\ sg.t = "arr"
          /\ \A i \in 1 .. Len(sg.kids) : sg.kids[i].t = "str"

\* C1: when the model call returned and json.loads rejects the text (a
\* missing text counting as ""), the response is 200 with body
\* {"raw_text": <that text>}; it is never a 500.
C1_RawTextOnParseFailure ==
    \A r \in Requests :
        (Done(r) /\ reply[r].stage = "ok" /\ ~loads(TextOf(r)).ok)
            => response[r] = [status |-> 200, body |-> RawTextBody(TextOf(r))]

C1_Witness ==
    /\ Done(1)
    /\ reply[1] = TextReply(Some(<<"I cannot comply">>))
    /\ response[1].status = 200

\* C2: an exception raised while reading the upload, building the image
\* part, calling the model, reading response.text or building the success
\* response is recorded for the request, and the request is answered with
\* 500 and {"error": <its message>}; nothing else is answered for it.
C2_ExceptionsBecome500 ==
    \A r \in Requests :
        /\ reply[r].stage \in {"read", "part", "generate", "text"}
              => raised[r] = [some |-> TRUE, msg |-> reply[r].msg]
        /\ (reply[r].stage = "ok" /\ loads(TextOf(r)).ok /\ HasNaN(loads(TextOf(r)).val))
              => raised[r] = [some |-> TRUE, msg |-> NanMessage]
        /\ raised[r].some
              => /\ Done(r)
                 /\ response[r] = [status |-> 500, body |-> ErrorBody(raised[r].msg)]

C2_Witness ==
    /\ Done(1)
    /\ reply[1].stage = "generate"
    /\ response[1] = [status |-> 500, body |-> ErrorBody("503 network failure")]

\* C3: whenever json.loads accepts the model's text, the response is 200
\* and its body is the parsed value, unchanged.
C3_ParsedBodyReturned ==
    \A r \in Requests :
        (Done(r) /\ reply[r].stage = "ok" /\ loads(TextOf(r)).ok)
            => response[r] = [status |-> 200, body |-> loads(TextOf(r)).val]

\* C4 as stated: every response of the handler is a threat-model object
\* with 200, {"raw_text": string} with 200, or {"error": string} with 500.
C4_ThreeShapes ==
    \A r \in Requests :
        Done(r) =>
            \/ response[r].status = 200 /\ IsThreatModelBody(response[r].body)
            \/ response[r].status = 200 /\ IsRawTextBody(response[r].body)
            \/ response[r].status = 500 /\ IsErrorBody(response[r].body)

\* C4 as amended: every response of the handler is 200 with the value
\* json.loads made of the model's text (any JSON value, of any shape),
\* 200 with {"raw_text": string}, or 500 with {"error": string}.
C4_ParsedRawOrError ==
    \A r \in Requests :
        Done(r) =>
            \/ /\ response[r].status = 200
               /\ reply[r].stage = "ok"
               /\ loads(TextOf(r)).ok
               /\ response[r].body = loads(TextOf(r)).val
            \/ response[r].status = 200 /\ IsRawTextBody(response[r].body)
            \/ response[r].status = 500 /\ IsErrorBody(response[r].body)

C4_Witness ==
    /\ Done(1)
    /\ reply[1] = TextReply(Some(<<"1">>))
    /\ response[1] = [status |-> 200, body |-> JNum("1")]

UsesEnglish(out) == Len(out) > 0 /\ out[1] = "Act as a cybersecurity expert"
UsesPortuguese(out) ==
    Len(out) > 0 /\ out[1] = "Aja como um especialista em ciberseguranca"

IsE(c) == c \in {"e", "E"}
IsN(c) == c \in {"n", "N"}

\* The value itself begins with "en", whatever the case.
BeginsWithEn(lang) ==
    lang.some /\ Len(lang.v) >= 2 /\ IsE(lang.v[1]) /\ IsN(lang.v[2])

\* The value begins with "en", whatever the case, after its leading blanks.
BeginsWithEnAfterBlanks(lang) ==
    /\ lang.some
    /\ \E k \in 0 .. Len(lang.v) :
          /\ \A i \in 1 .. k : lang.v[i] = " "
          /\ Len(lang.v) >= k + 2
          /\ IsE(lang.v[k + 1])
          /\ IsN(lang.v[k + 2])

\* C5 as stated: the English template is chosen exactly for the values
\* that begin with "en" (case-insensitively); every other value, an empty
\* or missing one included, gets the Portuguese template.
C5_EnglishIffBeginsWithEn ==
    promptOut.called =>
        /\ promptOut.ok
        /\ UsesEnglish(promptOut.out) <=> BeginsWithEn(promptArgs.prompt_language)
        /\ UsesPortuguese(promptOut.out) <=> ~BeginsWithEn(promptArgs.prompt_language)

\* C5 as amended: the English template is chosen exactly for the values
\* that begin with "en" (case-insensitively) once surrounding whitespace is
\* stripped; every other value, an empty or missing one included, gets the
\* Portuguese template.
C5_EnglishIffBeginsWithEnStripped ==
    promptOut.called =>
        /\ promptOut.ok
        /\ UsesEnglish(promptOut.out)
              <=> BeginsWithEnAfterBlanks(promptArgs.prompt_language)
        /\ UsesPortuguese(promptOut.out)
              <=> ~BeginsWithEnAfterBlanks(promptArgs.prompt_language)

C5_Witness ==
    /\ promptOut.called
    /\ promptArgs.prompt_language = Some(<<" ", "E", "n">>)
    /\ UsesEnglish(promptOut.out)

ENLabels ==
    [n \in FieldSet |->
        CASE n = "tipo_aplicacao" -> "APPLICATION_TYPE: "
          [] n = "autenticacao" -> "AUTHENTICATION_METHODS: "
          [] n = "acesso_internet" -> "INTERNET_EXPOSED: "
          [] n = "dados_sensiveis" -> "SENSITIVE_DATA: "
          [] OTHER -> "SUMMARY_DESCRIPTION: "]

\* C6: with prompt_language = "en" the prompt holds "Act as a cybersecurity
\* expert" and, after each field's label, that field's value token for
\* token, braces and placeholder-like text included.
C6_EnglishPromptHoldsValuesVerbatim ==
    (promptOut.called /\ promptArgs.prompt_language = Some(<<"e", "n">>)) =>
        /\ promptOut.ok
        /\ Contains(promptOut.out, <<"Act as a cybersecurity expert">>)
        /\ \A n \in FieldSet :
              /\ Contains(promptOut.out, promptArgs.fields[n])
              /\ Contains(promptOut.out, <<ENLabels[n]>> \o promptArgs.fields[n])

C6_Witness ==
    /\ promptOut.called
    /\ promptArgs.prompt_language = Some(<<"e", "n">>)
    /\ promptArgs.fields["tipo_aplicacao"] = <<"{", "autenticacao", "}">>
    /\ promptArgs.fields["autenticacao"] = <<"{", "{">>
    /\ Contains(promptOut.out, <<"APPLICATION_TYPE: ", "{", "autenticacao", "}">>)

SixParts == {"imagem", "tipo_aplicacao", "autenticacao", "acesso_internet",
             "dados_sensiveis", "descricao_aplicacao"}

\* C7: a request that lacks one of the six required parts never enters the
\* handler and never causes a model call; once answered, its answer is the
\* framework's validation failure.
C7_NoModelCallWithoutRequiredParts ==
    \A r \in Requests :
        /\ (calls[r] # <<>> \/ pc[r] \in {"reading", "done"})
              => SixParts \subseteq request[r].present
        /\ (pc[r] # "idle" /\ ~(SixParts \subseteq request[r].present))
              => /\ pc[r] \in {"received", "rejected"}
                 /\ calls[r] = <<>>
                 /\ pc[r] = "rejected" => response[r].status = 422

C7_Witness ==
    /\ pc[1] = "rejected"
    /\ request[1].present = AllParts \ {"tipo_aplicacao"}
    /\ response[1].status = 422
    /\ calls[1] = <<>>

\* C8 as stated: every request the handler finished made exactly one model
\* call.
C8_ExactlyOneCall ==
    \A r \in Requests : Done(r) => Len(calls[r]) = 1

\* C8 as amended: a request makes at most one model call, never a second
\* one; it makes exactly one when the upload read and the image part did
\* not raise, and none when one of them did.
C8_AtMostOneCall ==
    \A r \in Requests :
        /\ Len(calls[r]) <= 1
        /\ (Done(r) /\ reply[r].stage \in {"generate", "text", "ok"})
              => Len(calls[r]) = 1
        /\ (Done(r) /\ reply[r].stage \in {"read", "part"})
              => Len(calls[r]) = 0

C8_Witness ==
    /\ Done(1)
    /\ reply[1].stage = "generate"
    /\ Len(calls[1]) = 1

\* The prompt of r's own form.
OwnPrompt(r) ==
    create_threat_model_prompt(
        request[r].fields,
        IF "prompt_language" \in request[r].present
        THEN Some(request[r].prompt_language) ELSE Some(<<"p", "t">>)).out

\* The image part of r's own upload: all its bytes, under the declared
\* type, or "image/png" when none is declared.
OwnImagePart(r) ==
    [kind |-> "image", text |-> <<>>,
     mime_type |-> IF request[r].imagem.declared /\ request[r].imagem.content_type # ""
                   THEN request[r].imagem.content_type ELSE "image/png",
     data |-> request[r].imagem.data]

OwnPayload(r) ==
    <<[kind |-> "text", text |-> OwnPrompt(r), mime_type |-> "", data |-> <<>>],
      OwnImagePart(r),
      [kind |-> "text", text |-> TrailingInstruction, mime_type |-> "", data |-> <<>>]>>

\* C9: every model call carries the three parts [own prompt, own image
\* bytes under the declared type or "image/png", trailing instruction] in
\* that order, with temperature 0.7, top-p 0.95 and 1500 output tokens.
C9_PayloadAndParameters ==
    \A r \in Requests :
        \A i \in 1 .. Len(calls[r]) :
            /\ calls[r][i].contents = OwnPayload(r)
            /\ calls[r][i].generation_config =
                  [temperature_x100 |-> 70, top_p_x100 |-> 95,
                   max_output_tokens |-> 1500]

C9_Witness ==
    /\ Len(calls[1]) = 1
    /\ ~request[1].imagem.declared
    /\ calls[1][1].contents[2].mime_type = "image/png"
    /\ calls[1][1].contents[2].data = <<255, 216>>

\* What r's response must be, from r's own reply alone.
OwnResponse(r) ==
    IF reply[r].stage = "generate"
    THEN response[r] = [status |-> 500, body |-> ErrorBody(reply[r].msg)]
    ELSE /\ reply[r].stage = "ok"
         /\ response[r].status = 200
         /\ \/ response[r].body = RawTextBody(TextOf(r))
            \/ loads(TextOf(r)).ok /\ response[r].body = loads(TextOf(r)).val

Touched(r) ==
    \/ request'[r] # request[r]
    \/ pc'[r] # pc[r]
    \/ prompt'[r] # prompt[r]
    \/ reply'[r] # reply[r]
    \/ calls'[r] # calls[r]
    \/ raised'[r] # raised[r]
    \/ response'[r] # response[r]

C10_OwnInputsOnly ==
    \A r \in Requests :
        /\ \A i \in 1 .. Len(calls[r]) : calls[r][i].contents = OwnPayload(r)
        /\ Done(r) => OwnResponse(r)

C10_NoSharedWrites ==
    /\ model' = model
    /\ \A r, q \in Requests : (r # q /\ Touched(r)) => ~Touched(q)

\* C10: with requests interleaved at the await, each request's payload and
\* response are those of its own form and its own reply, and a step of one
\* request changes nothing of another request nor the model handle.
C10_RequestsAreIsolated ==
    [](C10_OwnInputsOnly) /\ [][C10_NoSharedWrites]_vars

C10_Witness ==
    /\ pc[1] = "reading"
    /\ Done(2)
    /\ calls[2] # <<>>
    /\ request[1] # request[2]
    /\ prompt[1] # prompt[2]

=============================================================================
